---- MODULE Spec2Model ----
(***************************************************************************)
(* Model of rocket-lamb: the Lambda handler that adapts API Gateway / ALB  *)
(* proxy events to a Rocket application (src/src/handler.rs) and the path  *)
(* views computed from an event (src/src/request_ext.rs).                  *)
(*                                                                         *)
(* Strings are sequences of one-character strings, byte strings are        *)
(* sequences of integers in 0..255.                                        *)
(***************************************************************************)
EXTENDS Integers, Sequences, FiniteSets, TLC

(***************************************************************************)
(* Bounds of the model.                                                    *)
(***************************************************************************)
NumInvocations == 2
MaxPathLen == 3
MaxBodyLen == 2

(***************************************************************************)
(* Option<T> and the outcome of a computation that may panic.              *)
(***************************************************************************)
None == [some |-> FALSE, v |-> <<>>]
Some(x) == [some |-> TRUE, v |-> x]
unwrap_or_empty(o) == IF o.some THEN o.v ELSE <<>>

Panic == [panic |-> TRUE, v |-> <<>>]
Ok(x) == [panic |-> FALSE, v |-> x]

(***************************************************************************)
(* str primitives used by the source.                                      *)
(***************************************************************************)
starts_with(s, p) == Len(p) <= Len(s) /\ SubSeq(s, 1, Len(p)) = p
ends_with(s, p) == Len(p) <= Len(s) /\ SubSeq(s, Len(s) - Len(p) + 1, Len(s)) = p

\* byte offsets (0-based) at which pat occurs in s
Occurrences(s, pat) ==
    {i \in 0..(Len(s) - Len(pat)) : SubSeq(s, i + 1, i + Len(pat)) = pat}

SetMax(S) == CHOOSE x \in S : \A y \in S : y <= x
SetMin(S) == CHOOSE x \in S : \A y \in S : x <= y

\* str::rfind: offset of the last occurrence, None when there is none
rfind(s, pat) ==
    IF Occurrences(s, pat) = {} THEN None ELSE Some(SetMax(Occurrences(s, pat)))

RECURSIVE split(_, _)
\* str::split(c): the pieces between the separators, empty pieces kept
split(s, c) ==
    IF \A i \in 1..Len(s) : s[i] # c THEN <<s>>
    ELSE LET k == SetMin({i \in 1..Len(s) : s[i] = c})
         IN <<SubSeq(s, 1, k - 1)>> \o split(SubSeq(s, k + 1, Len(s)), c)

RECURSIVE join(_, _)
\* [&str]::join(sep)
join(parts, sep) ==
    IF Len(parts) = 0 THEN <<>>
    ELSE IF Len(parts) = 1 THEN parts[1]
    ELSE parts[1] \o sep \o join(Tail(parts), sep)

(***************************************************************************)
(* lamedh_http::Request as the source reads it.                            *)
(*   ctx            request_context() variant                              *)
(*   stage          Option<String> of the gateway context                  *)
(*   resource_path  Option<String>: V1 resource_path / V2 http.path        *)
(*   host           Option<&str>: the HOST header as text                  *)
(*   path           uri().path()                                           *)
(*   path_parameters  set of <<name, value>>                               *)
(*   method         http::Method                                           *)
(*   query          sequence of <<key, value>>                             *)
(*   headers_text   FALSE when some header value is not text               *)
(***************************************************************************)
AMAZONAWS_COM == <<".", "a", "m", "a", "z", "o", "n", "a", "w", "s", ".", "c", "o", "m">>
EXECUTE_API == <<".", "e", "x", "e", "c", "u", "t", "e", "-", "a", "p", "i", ".">>

contains(s, pat) == Occurrences(s, pat) # {}

is_default_api_gateway_url(req) ==
    /\ req.host.some
    /\ ends_with(req.host.v, AMAZONAWS_COM)
    /\ contains(req.host.v, EXECUTE_API)

\* StrMap::get
path_parameters_get(req, name) ==
    IF \E e \in req.path_parameters : e[1] = name
    THEN Some((CHOOSE e \in req.path_parameters : e[1] = name)[2])
    ELSE None

\* one segment of the template: a {name} or {name+} segment is replaced by
\* the parameter's value; the slice or the lookup may panic
populate_segment(req, segment) ==
    IF starts_with(segment, <<"{">>)
    THEN LET end == IF ends_with(segment, <<"+", "}">>) THEN 2 ELSE 1
         IN IF Len(segment) - end < 1 THEN Panic
            ELSE LET param == SubSeq(segment, 2, Len(segment) - end)
                     value == path_parameters_get(req, param)
                 IN IF value.some THEN Ok(value.v) ELSE Panic
    ELSE Ok(segment)

populate_resource_path(req, resource_path) ==
    LET segments == split(resource_path, "/")
        mapped == [i \in 1..Len(segments) |-> populate_segment(req, segments[i])]
    IN IF \E i \in 1..Len(segments) : mapped[i].panic THEN Panic
       ELSE Ok(join([i \in 1..Len(segments) |-> mapped[i].v], <<"/">>))

\* the context's (stage, path) pair
context_stage(req) == IF req.ctx = "Alb" THEN None ELSE req.stage
context_path(req) == IF req.ctx = "Alb" THEN None ELSE req.resource_path

\* base_path with str::find in place of str::rfind
base_path_first_occurrence(req) ==
    IF is_default_api_gateway_url(req)
    THEN Ok(<<"/">> \o unwrap_or_empty(context_stage(req)))
    ELSE LET path == populate_resource_path(req, unwrap_or_empty(context_path(req)))
         IN IF path.panic THEN Panic
            ELSE IF Occurrences(req.path, path.v) = {} THEN Panic
            ELSE Ok(SubSeq(req.path, 1, SetMin(Occurrences(req.path, path.v))))

base_path(req) ==
    IF is_default_api_gateway_url(req)
    THEN Ok(<<"/">> \o unwrap_or_empty(context_stage(req)))
    ELSE LET path == populate_resource_path(req, unwrap_or_empty(context_path(req)))
         IN IF path.panic THEN Panic
            ELSE LET resource_path_index == rfind(req.path, path.v)
                 IN IF ~resource_path_index.some THEN Panic
                    ELSE Ok(SubSeq(req.path, 1, resource_path_index.v))

full_path(req) ==
    IF req.ctx = "Alb" \/ ~is_default_api_gateway_url(req)
    THEN Ok(req.path)
    ELSE LET path == base_path(req)
         IN IF path.panic THEN Panic ELSE Ok(path.v \o req.path)

api_path(req) ==
    IF req.ctx = "Alb" \/ is_default_api_gateway_url(req)
    THEN Ok(req.path)
    ELSE LET base == base_path(req)
         IN IF base.panic THEN Panic
            ELSE Ok(SubSeq(req.path, Len(base.v) + 1, Len(req.path)))

(***************************************************************************)
(* Text and bytes.  A String of the response side is the sequence of its   *)
(* code points; as_bytes gives the UTF-8 bytes of an ASCII path string.    *)
(***************************************************************************)
\* the characters of bytes 32..126 (QUOT, APOS, BSOL and GRAVE
\* stand for bytes 34, 39, 92 and 96)
AsciiPrintable ==
    <<" ", "!", "QUOT", "#", "$", "%", "&", "APOS", "(", ")", "*", "+", ",", "-", ".", "/",
      "0", "1", "2", "3", "4", "5", "6", "7", "8", "9", ":", ";", "<", "=", ">", "?",
      "@", "A", "B", "C", "D", "E", "F", "G", "H", "I", "J", "K", "L", "M", "N", "O",
      "P", "Q", "R", "S", "T", "U", "V", "W", "X", "Y", "Z", "[", "BSOL", "]", "^", "_",
      "GRAVE", "a", "b", "c", "d", "e", "f", "g", "h", "i", "j", "k", "l", "m", "n", "o",
      "p", "q", "r", "s", "t", "u", "v", "w", "x", "y", "z", "{", "|", "}", "~">>

byte_of(c) == 31 + (CHOOSE k \in 1..Len(AsciiPrintable) : AsciiPrintable[k] = c)
as_bytes(s) == [i \in 1..Len(s) |-> byte_of(s[i])]

\* char::to_lowercase on ASCII; str::to_lowercase
char_to_lowercase(c) ==
    LET b == byte_of(c) IN IF b >= 65 /\ b <= 90 THEN AsciiPrintable[b + 32 - 31] ELSE c
to_lowercase(s) == [i \in 1..Len(s) |-> char_to_lowercase(s[i])]

is_continuation(b) == b >= 128 /\ b <= 191

\* length of the well-formed UTF-8 sequence that starts the byte string b,
\* 0 when there is none
utf8_width(b) ==
    LET n == Len(b)
        b1 == b[1]
        cont(k) == n >= k /\ is_continuation(b[k])
    IN IF b1 <= 127 THEN 1
       ELSE IF b1 >= 194 /\ b1 <= 223 THEN (IF cont(2) THEN 2 ELSE 0)
       ELSE IF b1 = 224 THEN (IF n >= 3 /\ b[2] >= 160 /\ b[2] <= 191 /\ cont(3) THEN 3 ELSE 0)
       ELSE IF b1 = 237 THEN (IF n >= 3 /\ b[2] >= 128 /\ b[2] <= 159 /\ cont(3) THEN 3 ELSE 0)
       ELSE IF b1 >= 225 /\ b1 <= 239 THEN (IF cont(2) /\ cont(3) THEN 3 ELSE 0)
       ELSE IF b1 = 240
            THEN (IF n >= 4 /\ b[2] >= 144 /\ b[2] <= 191 /\ cont(3) /\ cont(4) THEN 4 ELSE 0)
       ELSE IF b1 >= 241 /\ b1 <= 243 THEN (IF cont(2) /\ cont(3) /\ cont(4) THEN 4 ELSE 0)
       ELSE IF b1 = 244
            THEN (IF n >= 4 /\ b[2] >= 128 /\ b[2] <= 143 /\ cont(3) /\ cont(4) THEN 4 ELSE 0)
       ELSE 0

code_point(b, w) ==
    IF w = 1 THEN b[1]
    ELSE IF w = 2 THEN (b[1] - 192) * 64 + (b[2] - 128)
    ELSE IF w = 3 THEN (b[1] - 224) * 4096 + (b[2] - 128) * 64 + (b[3] - 128)
    ELSE (b[1] - 240) * 262144 + (b[2] - 128) * 4096 + (b[3] - 128) * 64 + (b[4] - 128)

RECURSIVE from_utf8(_)
\* String::from_utf8: Ok(the code points) or Err
from_utf8(b) ==
    IF Len(b) = 0 THEN [ok |-> TRUE, s |-> <<>>]
    ELSE LET w == utf8_width(b)
         IN IF w = 0 THEN [ok |-> FALSE, s |-> <<>>]
            ELSE LET rest == from_utf8(SubSeq(b, w + 1, Len(b)))
                 IN IF rest.ok
                    THEN [ok |-> TRUE, s |-> <<code_point(b, w)>> \o rest.s]
                    ELSE [ok |-> FALSE, s |-> <<>>]

(***************************************************************************)
(* aws_lambda_events::encodings::Body and the handler's result.            *)
(***************************************************************************)
BodyEmpty == [variant |-> "Empty", data |-> <<>>]
BodyText(s) == [variant |-> "Text", data |-> s]
BodyBinary(b) == [variant |-> "Binary", data |-> b]

NoResult == [kind |-> "None", status |-> 0, headers |-> <<>>, body |-> BodyEmpty]
Err(kind) == [kind |-> kind, status |-> 0, headers |-> <<>>, body |-> BodyEmpty]
OkResponse(status, headers, body) ==
    [kind |-> "Ok", status |-> status, headers |-> headers, body |-> body]

(***************************************************************************)
(* create_lambda_response.  A header is <<name, value>>, the name in its   *)
(* uncased (lower-case) form.                                              *)
(***************************************************************************)
CONTENT_TYPE == <<"c", "o", "n", "t", "e", "n", "t", "-", "t", "y", "p", "e">>

\* HeaderMap::get_one
get_one(headers, name) ==
    IF \E i \in 1..Len(headers) : headers[i][1] = name
    THEN Some(headers[SetMin({i \in 1..Len(headers) : headers[i][1] = name})][2])
    ELSE None

\* config.response_types.get: response_types is a set of <<content type, type>>
response_types_get(config, ct) ==
    IF \E e \in config.response_types : e[1] = ct
    THEN Some((CHOOSE e \in config.response_types : e[1] = ct)[2])
    ELSE None

\* response_type without the split at ';'
response_type_whole_value(config, headers) ==
    LET ct == unwrap_or_empty(get_one(headers, CONTENT_TYPE))
        found == response_types_get(config, to_lowercase(ct))
    IN IF found.some THEN found.v ELSE config.default_response_type

response_type(config, headers) ==
    LET ct == split(unwrap_or_empty(get_one(headers, CONTENT_TYPE)), ";")[1]
        found == response_types_get(config, to_lowercase(ct))
    IN IF found.some THEN found.v ELSE config.default_response_type

\* the match on into_bytes(): the body, or the InvalidResponse error
response_body(rtype, bytes) ==
    IF ~bytes.some THEN [ok |-> TRUE, body |-> BodyEmpty]
    ELSE LET decoded == from_utf8(bytes.v)
         IN CASE rtype = "Auto" ->
                    IF decoded.ok THEN [ok |-> TRUE, body |-> BodyText(decoded.s)]
                    ELSE [ok |-> TRUE, body |-> BodyBinary(bytes.v)]
              [] rtype = "Text" ->
                    IF decoded.ok THEN [ok |-> TRUE, body |-> BodyText(decoded.s)]
                    ELSE [ok |-> FALSE, body |-> BodyEmpty]
              [] rtype = "Binary" -> [ok |-> TRUE, body |-> BodyBinary(bytes.v)]

\* http's builder keeps the first error of a status or header it does not
\* accept (a status outside 100..999, a header name that is empty or holds a
\* space) and body() then fails
status_accepted(code) == code >= 100 /\ code < 1000
header_accepted(h) == Len(h[1]) > 0 /\ \A i \in 1..Len(h[1]) : h[1][i] # " "

RECURSIVE builder_headers(_, _)
\* the loop over local_res.headers(): each header appended in order
builder_headers(built, headers) ==
    IF Len(headers) = 0 THEN built
    ELSE builder_headers(Append(built, headers[1]), Tail(headers))

create_lambda_response(config, local_res) ==
    LET headers == builder_headers(<<>>, local_res.headers)
        rtype == response_type(config, local_res.headers)
        body == response_body(rtype, local_res.body)
    IN IF ~body.ok THEN Err("InvalidResponse")
       ELSE IF \/ ~status_accepted(local_res.status)
               \/ \E i \in 1..Len(local_res.headers) : ~header_accepted(local_res.headers[i])
       THEN Err("InvalidResponse")
       ELSE OkResponse(local_res.status, headers, body.body)

(***************************************************************************)
(* get_path_and_query: the path view the mode selects, with the query      *)
(* percent-encoded and reattached.                                         *)
(***************************************************************************)
HexDigits == <<"0", "1", "2", "3", "4", "5", "6", "7", "8", "9", "A", "B", "C", "D", "E", "F">>

is_unreserved(c) ==
    LET b == byte_of(c)
    IN \/ b >= 48 /\ b <= 57
       \/ b >= 65 /\ b <= 90
       \/ b >= 97 /\ b <= 122
       \/ c \in {"-", ".", "_", "~"}

percent_encode_char(c) ==
    IF is_unreserved(c) THEN <<c>>
    ELSE <<"%", HexDigits[(byte_of(c) \div 16) + 1], HexDigits[(byte_of(c) % 16) + 1]>>

RECURSIVE percent_encode(_)
percent_encode(s) ==
    IF Len(s) = 0 THEN <<>> ELSE percent_encode_char(s[1]) \o percent_encode(Tail(s))

RECURSIVE push_values(_, _, _, _)
\* the inner loop: every value of one key, in order; returns <<uri, separator>>
push_values(uri, separator, key, values) ==
    IF Len(values) = 0 THEN <<uri, separator>>
    ELSE push_values(uri \o <<separator>> \o percent_encode(key) \o <<"=">>
                         \o percent_encode(values[1]),
                     "&", key, Tail(values))

RECURSIVE push_query(_, _, _)
\* the outer loop over the keys; query is a sequence of <<key, values>>
push_query(uri, separator, query) ==
    IF Len(query) = 0 THEN uri
    ELSE LET pushed == push_values(uri, separator, query[1][1], query[1][2])
         IN push_query(pushed[1], pushed[2], Tail(query))

\* selected_path with the Exclude arm returning full_path
selected_path_always_full(config, req) == full_path(req)

selected_path(config, req) ==
    IF config.base_path_behaviour \in {"Include", "RemountAndInclude"}
    THEN full_path(req)
    ELSE api_path(req)

get_path_and_query(config, req) ==
    LET uri == selected_path(config, req)
    IN IF uri.panic THEN Panic ELSE Ok(push_query(uri.v, "?", req.query))

to_rocket_method(method) ==
    IF method \in {"GET", "PUT", "POST", "DELETE", "OPTIONS", "HEAD", "TRACE", "CONNECT", "PATCH"}
    THEN [ok |-> TRUE, v |-> method]
    ELSE [ok |-> FALSE, v |-> "InvalidRequest"]

\* create_rocket_request: Ok(uri of the local request), Err(InvalidRequest) or a panic
create_rocket_request(config, req) ==
    IF ~to_rocket_method(req.method).ok THEN [outcome |-> "Err", uri |-> <<>>]
    ELSE LET uri == get_path_and_query(config, req)
         IN IF uri.panic THEN [outcome |-> "Panic", uri |-> <<>>]
            ELSE IF ~req.headers_text THEN [outcome |-> "Err", uri |-> <<>>]
            ELSE [outcome |-> "Ok", uri |-> uri.v]

(***************************************************************************)
(* The Rocket application: its routes, mounting and local dispatch.  The   *)
(* application is the one of tests/path_tests.rs: GET /path answers with   *)
(* the request's path, the 404 catcher with the request's uri.             *)
(***************************************************************************)
PATH_ROUTE == <<"/", "p", "a", "t", "h">>
TEXT_PLAIN == <<"t", "e", "x", "t", "/", "p", "l", "a", "i", "n">>
TEXT_PLAIN_UTF8 ==
    TEXT_PLAIN \o <<";", " ", "c", "h", "a", "r", "s", "e", "t", "=", "u", "t", "f", "-", "8">>

make_rocket == [routes |-> {PATH_ROUTE}]

\* Rocket::mount(base, routes): the routes are added under base
mount(r, base, routes) == [routes |-> r.routes \cup {base \o route : route \in routes}]

RECURSIVE non_empty(_)
non_empty(parts) ==
    IF Len(parts) = 0 THEN <<>>
    ELSE IF Len(parts[1]) = 0 THEN non_empty(Tail(parts))
    ELSE <<parts[1]>> \o non_empty(Tail(parts))

\* the path segments a route or a request uri is matched on
segments(path) == non_empty(split(path, "/"))

uri_path(uri) == split(uri, "?")[1]

route_matches(route, uri) == segments(route) = segments(uri_path(uri))

\* LocalRequest::dispatch on the application behind client
dispatch(client, uri) ==
    IF \E route \in client.routes : route_matches(route, uri)
    THEN [status |-> 200, headers |-> <<<<CONTENT_TYPE, TEXT_PLAIN_UTF8>>>>,
          body |-> Some(as_bytes(uri_path(uri)))]
    ELSE [status |-> 404, headers |-> <<<<CONTENT_TYPE, TEXT_PLAIN_UTF8>>>>,
          body |-> Some(as_bytes(uri))]

(***************************************************************************)
(* The requests the handler is driven with.                                *)
(***************************************************************************)
PROD == <<"P", "r", "o", "d">>
HOST_DEFAULT == <<"a", "b", "c">> \o EXECUTE_API \o <<"u", "s">> \o AMAZONAWS_COM
HOST_CUSTOM == <<"a", "p", "i", ".", "e", "x", ".", "c", "o", "m">>
HOST_ELB == <<"l", "b", ".", "e", "l", "b">> \o AMAZONAWS_COM
PATH_SLASH == PATH_ROUTE \o <<"/">>
BASE_PATH == <<"/", "b", "a", "s", "e", "-", "p", "a", "t", "h">>
PROXY == <<"p", "r", "o", "x", "y">>

ReqApiGateway ==
    [ctx |-> "ApiGatewayV1", stage |-> Some(PROD), resource_path |-> Some(PATH_ROUTE),
     host |-> Some(HOST_DEFAULT), path |-> PATH_SLASH, path_parameters |-> {},
     method |-> "GET", query |-> <<>>, headers_text |-> TRUE]
ReqCustomDomain == [ReqApiGateway EXCEPT !.host = Some(HOST_CUSTOM)]
ReqCustomDomainWithBase ==
    [ReqCustomDomain EXCEPT !.path = BASE_PATH \o PATH_SLASH,
                            !.resource_path = Some(<<"/", "{">> \o PROXY \o <<"+", "}">>),
                            !.path_parameters = {<<PROXY, Tail(PATH_ROUTE)>>}]
ReqAlb ==
    [ReqApiGateway EXCEPT !.ctx = "Alb", !.stage = None, !.resource_path = None,
                          !.host = Some(HOST_ELB)]
\* a custom-domain request whose template does not occur in its path
ReqMismatch == [ReqCustomDomain EXCEPT !.resource_path = Some(<<"/", "o">>)]
ReqUnknownMethod == [ReqApiGateway EXCEPT !.method = "PROPFIND"]
ReqQuery == [ReqApiGateway EXCEPT !.ctx = "ApiGatewayV2",
                                  !.query = <<<<<<"q">>, <<<<"a", " ", "b">>, <<"c">>>>>>>>]

Requests ==
    {ReqApiGateway, ReqCustomDomain, ReqCustomDomainWithBase, ReqAlb, ReqMismatch,
     ReqUnknownMethod, ReqQuery}

NoRequest == [ReqApiGateway EXCEPT !.ctx = "None"]

BasePathBehaviours == {"Include", "Exclude", "RemountAndInclude"}
ResponseTypes == {"Auto", "Text", "Binary"}

(***************************************************************************)
(* State.                                                                  *)
(*   config        Arc<Config>                                             *)
(*   lazy_client   the LazyClient in the Mutex                             *)
(*   lock          the invocation holding the MutexGuard, 0 when free      *)
(*   pc, req, client, local_uri, res   each invocation's position, request,*)
(*                 Arc<Client>, local request uri and result               *)
(*   pending       the Rocket handed to Client::untracked                  *)
(*   builds, built_from, observed, contended   history of the run      *)
(*   path_req, path_view, local_res, lambda_res   argument and result of   *)
(*                 the path views and of create_lambda_response            *)
(***************************************************************************)
VARIABLES config, lazy_client, lock, pc, req, client, local_uri, res, pending,
          builds, built_from, observed, contended,
          path_req, path_view, local_res, lambda_res

handler_vars == <<config, lazy_client, lock, pc, req, client, local_uri, res, pending,
                  builds, built_from, observed, contended>>
pure_vars == <<path_req, path_view, local_res, lambda_res>>
vars == <<config, lazy_client, lock, pc, req, client, local_uri, res, pending,
          builds, built_from, observed, contended,
          path_req, path_view, local_res, lambda_res>>

Invocations == 1..NumInvocations

NoRocket == [routes |-> {}]
NoClient == [id |-> 0, routes |-> {}]
Uninitialized(r) == [tag |-> "Uninitialized", r |-> r, c |-> NoClient]
Ready(c) == [tag |-> "Ready", r |-> [some |-> FALSE, v |-> NoRocket], c |-> c]
NoneRocket == [some |-> FALSE, v |-> NoRocket]

NotDone == [done |-> FALSE, panic |-> FALSE, v |-> <<>>]
Done(r) == [done |-> TRUE, panic |-> r.panic, v |-> r.v]
NoView == [base |-> NotDone, full |-> NotDone, api |-> NotDone]
NoLocalRes == [status |-> 0, headers |-> <<>>, body |-> None]

DefaultConfig(behaviour) ==
    [base_path_behaviour |-> behaviour, response_types |-> {}, default_response_type |-> "Auto"]

\* RocketHandler after into_handler(): the application not yet built
InitHandler ==
    /\ lazy_client = Uninitialized(Some(make_rocket))
    /\ lock = 0
    /\ pc = [i \in Invocations |-> "idle"]
    /\ req = [i \in Invocations |-> NoRequest]
    /\ client = [i \in Invocations |-> NoClient]
    /\ local_uri = [i \in Invocations |-> <<>>]
    /\ res = [i \in Invocations |-> NoResult]
    /\ pending = NoRocket
    /\ builds = 0
    /\ built_from = NoRequest
    /\ observed = [i \in Invocations |-> "-"]
    /\ contended = FALSE

InitPure ==
    /\ path_req = NoRequest
    /\ path_view = NoView
    /\ local_res = NoLocalRes
    /\ lambda_res = NoResult

Init ==
    /\ config \in {DefaultConfig(b) : b \in BasePathBehaviours}
    /\ InitHandler
    /\ InitPure

(***************************************************************************)
(* The handler: one action per step of process_request between two of     *)
(* its suspension points.                                                  *)
(***************************************************************************)

\* RocketHandler::call: invocation i starts and waits for the lock;
\* invocations are numbered in the order they are called
Call(i, r) ==
    /\ pc[i] = "idle"
    /\ \A j \in Invocations : j < i => pc[j] # "idle"
    /\ pc' = [pc EXCEPT ![i] = "lock"]
    /\ req' = [req EXCEPT ![i] = r]
    /\ UNCHANGED <<config, lazy_client, lock, client, local_uri, res, pending, builds,
                   built_from, observed, contended>>
    /\ UNCHANGED pure_vars

\* Acquire on a lock that does not exclude
Acquire_without_exclusion(i) ==
    /\ pc[i] = "lock"
    /\ lock' = i
    /\ pc' = [pc EXCEPT ![i] = "locked"]
    /\ UNCHANGED <<config, lazy_client, req, client, local_uri, res, pending, builds,
                   built_from, observed, contended>>
    /\ UNCHANGED pure_vars

\* lazy_client_lock.lock().await completes: the guard is i's
Acquire(i) ==
    /\ pc[i] = "lock"
    /\ lock = 0
    /\ lock' = i
    /\ pc' = [pc EXCEPT ![i] = "locked"]
    /\ UNCHANGED <<config, lazy_client, req, client, local_uri, res, pending, builds,
                   built_from, observed, contended>>
    /\ UNCHANGED pure_vars

\* the routes get_client_from_lazy builds the client from
rocket_to_build(cfg, r, base_path_v) ==
    IF cfg.base_path_behaviour = "RemountAndInclude" /\ Len(base_path_v) # 0
    THEN mount(r, base_path_v, r.routes)
    ELSE r

\* GetReady remounting for its own request and replacing the client
GetReady_rebuilding(i) ==
    /\ pc[i] = "locked"
    /\ lazy_client.tag = "Ready"
    /\ LET base == base_path(req[i])
           c == [id |-> lazy_client.c.id + 1,
                 routes |-> rocket_to_build(config, [routes |-> lazy_client.c.routes],
                                            IF base.panic THEN <<>> ELSE base.v).routes]
       IN /\ lazy_client' = Ready(c)
          /\ client' = [client EXCEPT ![i] = c]
    /\ observed' = [observed EXCEPT ![i] = "Ready"]
    /\ lock' = 0
    /\ pc' = [pc EXCEPT ![i] = "client"]
    /\ UNCHANGED <<config, req, local_uri, res, pending, builds, built_from, contended>>
    /\ UNCHANGED pure_vars

\* the Ready arm: the handle is cloned and the guard dropped
GetReady(i) ==
    /\ pc[i] = "locked"
    /\ lazy_client.tag = "Ready"
    /\ client' = [client EXCEPT ![i] = lazy_client.c]
    /\ observed' = [observed EXCEPT ![i] = "Ready"]
    /\ lock' = 0
    /\ pc' = [pc EXCEPT ![i] = "client"]
    /\ UNCHANGED <<config, lazy_client, req, local_uri, res, pending, builds, built_from,
                   contended>>
    /\ UNCHANGED pure_vars

\* the Uninitialized arm up to Client::untracked(..).await: take() with its
\* expect, base_path() with its panics, the remount.  A panic unwinds and
\* drops the guard.
Initialize(i) ==
    /\ pc[i] = "locked"
    /\ lazy_client.tag = "Uninitialized"
    /\ IF ~lazy_client.r.some
       THEN /\ observed' = [observed EXCEPT ![i] = "None"]
            /\ pc' = [pc EXCEPT ![i] = "panicked"]
            /\ lock' = 0
            /\ UNCHANGED <<lazy_client, pending, built_from>>
       ELSE /\ observed' = [observed EXCEPT ![i] = "Some"]
            /\ lazy_client' = Uninitialized(NoneRocket)
            /\ LET base == base_path(req[i])
               IN IF base.panic
                  THEN /\ pc' = [pc EXCEPT ![i] = "panicked"]
                       /\ lock' = 0
                       /\ UNCHANGED <<pending, built_from>>
                  ELSE /\ pending' = rocket_to_build(config, lazy_client.r.v, base.v)
                       /\ built_from' = req[i]
                       /\ pc' = [pc EXCEPT ![i] = "building"]
                       /\ UNCHANGED lock
    /\ contended' = (contended \/ \E j \in Invocations : j # i /\ pc[j] = "lock")
    /\ UNCHANGED <<config, req, client, local_uri, res, builds>>
    /\ UNCHANGED pure_vars

\* Client::untracked(..).await returns Ok: the client is stored and
\* returned, the guard dropped
BuildDone(i) ==
    /\ pc[i] = "building"
    /\ LET c == [id |-> builds + 1, routes |-> pending.routes]
       IN /\ lazy_client' = Ready(c)
          /\ client' = [client EXCEPT ![i] = c]
    /\ builds' = builds + 1
    /\ pending' = NoRocket
    /\ lock' = 0
    /\ pc' = [pc EXCEPT ![i] = "client"]
    /\ UNCHANGED <<config, req, local_uri, res, built_from, observed, contended>>
    /\ UNCHANGED pure_vars

\* Client::untracked(..).await returns Err: unwrap() panics
BuildFail(i) ==
    /\ pc[i] = "building"
    /\ pending' = NoRocket
    /\ lock' = 0
    /\ pc' = [pc EXCEPT ![i] = "panicked"]
    /\ UNCHANGED <<config, lazy_client, req, client, local_uri, res, builds, built_from,
                   observed, contended>>
    /\ UNCHANGED pure_vars

\* create_rocket_request on the returned client
Translate(i) ==
    /\ pc[i] = "client"
    /\ LET local_req == create_rocket_request(config, req[i])
       IN CASE local_req.outcome = "Ok" ->
                    /\ local_uri' = [local_uri EXCEPT ![i] = local_req.uri]
                    /\ pc' = [pc EXCEPT ![i] = "dispatching"]
                    /\ UNCHANGED res
            [] local_req.outcome = "Err" ->
                    /\ res' = [res EXCEPT ![i] = Err("InvalidRequest")]
                    /\ pc' = [pc EXCEPT ![i] = "done"]
                    /\ UNCHANGED local_uri
            [] local_req.outcome = "Panic" ->
                    /\ pc' = [pc EXCEPT ![i] = "panicked"]
                    /\ UNCHANGED <<local_uri, res>>
    /\ UNCHANGED <<config, lazy_client, lock, req, client, pending, builds, built_from,
                   observed, contended>>
    /\ UNCHANGED pure_vars

\* local_req.dispatch().await returns and create_lambda_response runs
Dispatch(i) ==
    /\ pc[i] = "dispatching"
    /\ res' = [res EXCEPT ![i] = create_lambda_response(config, dispatch(client[i], local_uri[i]))]
    /\ pc' = [pc EXCEPT ![i] = "done"]
    /\ UNCHANGED <<config, lazy_client, lock, req, client, local_uri, pending, builds,
                   built_from, observed, contended>>
    /\ UNCHANGED pure_vars

\* the caller drops the future at one of its suspension points; a guard it
\* holds is dropped with it
Abandon(i) ==
    /\ pc[i] \in {"lock", "building", "dispatching"}
    /\ pc' = [pc EXCEPT ![i] = "dropped"]
    /\ lock' = IF lock = i THEN 0 ELSE lock
    /\ pending' = IF pc[i] = "building" THEN NoRocket ELSE pending
    /\ UNCHANGED <<config, lazy_client, req, client, local_uri, res, builds, built_from,
                   observed, contended>>
    /\ UNCHANGED pure_vars

Next ==
    \/ \E i \in Invocations, r \in Requests : Call(i, r)
    \/ \E i \in Invocations : Acquire(i)
    \/ \E i \in Invocations : GetReady(i)
    \/ \E i \in Invocations : Initialize(i)
    \/ \E i \in Invocations : BuildDone(i)
    \/ \E i \in Invocations : BuildFail(i)
    \/ \E i \in Invocations : Translate(i)
    \/ \E i \in Invocations : Dispatch(i)
    \/ \E i \in Invocations : Abandon(i)

Spec == Init /\ [][Next]_vars

(***************************************************************************)
(* The path views on their own: base_path, full_path and api_path applied  *)
(* to one request drawn from a bounded set.                                *)
(***************************************************************************)
PARAM == <<"p">>

PathStrings ==
    {<<"/">> \o s : s \in UNION {[1..n -> {"/", "a"}] : n \in 0..MaxPathLen}}

ResourcePaths ==
    {None, Some(<<>>), Some(<<"/", "a">>), Some(<<"/", "{", "p", "}">>),
     Some(<<"/", "{", "p", "+", "}">>), Some(<<"{">>), Some(<<"/", "a", "/", "{", "p", "}">>)}

PathParameters == {{}, {<<PARAM, <<"a">>>>}, {<<PARAM, <<"a", "/", "a">>>>}}

Hosts == {None, Some(HOST_CUSTOM), Some(HOST_DEFAULT), Some(HOST_ELB)}

GatewayRequests ==
    {[ctx |-> c, stage |-> st, resource_path |-> rp, host |-> h, path |-> p,
      path_parameters |-> pp, method |-> "GET", query |-> <<>>, headers_text |-> TRUE] :
        c \in {"ApiGatewayV1", "ApiGatewayV2"}, st \in {None, Some(<<"s">>)},
        rp \in ResourcePaths, h \in Hosts, p \in PathStrings, pp \in PathParameters}

AlbRequests ==
    {[ctx |-> "Alb", stage |-> None, resource_path |-> None, host |-> h, path |-> p,
      path_parameters |-> {}, method |-> "GET", query |-> <<>>, headers_text |-> TRUE] :
        h \in Hosts, p \in PathStrings}

PathRequests == GatewayRequests \cup AlbRequests

InitPath ==
    /\ config = DefaultConfig("RemountAndInclude")
    /\ InitHandler
    /\ path_req \in PathRequests
    /\ path_view = NoView
    /\ local_res = NoLocalRes
    /\ lambda_res = NoResult

BasePath ==
    /\ ~path_view.base.done
    /\ path_view' = [path_view EXCEPT !.base = Done(base_path(path_req))]
    /\ UNCHANGED <<path_req, local_res, lambda_res>>
    /\ UNCHANGED handler_vars

FullPath ==
    /\ ~path_view.full.done
    /\ path_view' = [path_view EXCEPT !.full = Done(full_path(path_req))]
    /\ UNCHANGED <<path_req, local_res, lambda_res>>
    /\ UNCHANGED handler_vars

ApiPath ==
    /\ ~path_view.api.done
    /\ path_view' = [path_view EXCEPT !.api = Done(api_path(path_req))]
    /\ UNCHANGED <<path_req, local_res, lambda_res>>
    /\ UNCHANGED handler_vars

NextPath == BasePath \/ FullPath \/ ApiPath

SpecPath == InitPath /\ [][NextPath]_vars

(***************************************************************************)
(* create_lambda_response on its own: one framework response drawn from a  *)
(* bounded set, under every response configuration.                        *)
(***************************************************************************)
IMAGE_PNG == <<"i", "m", "a", "g", "e", "/", "p", "n", "g">>
TEXT_PLAIN_MIXED_CASE ==
    <<"T", "e", "x", "t", "/", "P", "L", "A", "I", "N", ";", "c", "h", "a", "r", "s", "e", "t">>
X_ID == <<"x", "-", "i", "d">>
X_BAD == <<"x", " ", "i", "d">>

ResponseTypeMaps ==
    {{}, {<<TEXT_PLAIN, "Text">>}, {<<TEXT_PLAIN, "Binary">>, <<<<>>, "Text">>},
     {<<IMAGE_PNG, "Binary">>, <<TEXT_PLAIN_UTF8, "Text">>}}

ResponseConfigs ==
    {[base_path_behaviour |-> "RemountAndInclude", response_types |-> m,
      default_response_type |-> d] : m \in ResponseTypeMaps, d \in ResponseTypes}

HeaderLists ==
    {<<>>,
     <<<<CONTENT_TYPE, TEXT_PLAIN>>>>,
     <<<<X_ID, <<"1">>>>, <<CONTENT_TYPE, TEXT_PLAIN_MIXED_CASE>>>>,
     <<<<CONTENT_TYPE, TEXT_PLAIN_UTF8>>, <<X_ID, <<"1">>>>>>,
     <<<<CONTENT_TYPE, IMAGE_PNG>>, <<CONTENT_TYPE, TEXT_PLAIN>>>>,
     <<<<X_BAD, <<"1">>>>, <<CONTENT_TYPE, TEXT_PLAIN>>>>}

\* 'A', the two bytes of U+00E9, and a byte no UTF-8 text holds
BodyBytes == {65, 195, 169, 255}

Bodies == {None} \cup {Some(b) : b \in UNION {[1..n -> BodyBytes] : n \in 0..MaxBodyLen}}

LocalResponses ==
    {[status |-> st, headers |-> h, body |-> b] :
        st \in {200, 404, 42}, h \in HeaderLists, b \in Bodies}

InitResponse ==
    /\ config \in ResponseConfigs
    /\ InitHandler
    /\ path_req = NoRequest
    /\ path_view = NoView
    /\ local_res \in LocalResponses
    /\ lambda_res = NoResult

Respond ==
    /\ lambda_res = NoResult
    /\ lambda_res' = create_lambda_response(config, local_res)
    /\ UNCHANGED <<path_req, path_view, local_res>>
    /\ UNCHANGED handler_vars

NextResponse == Respond

SpecResponse == InitResponse /\ [][NextResponse]_vars

(***************************************************************************)
(* Properties.                                                             *)
(***************************************************************************)

\* the invocation took the application out of the cell and ended without
\* storing a client
AbortedInTransition(j) == observed[j] = "Some" /\ pc[j] \in {"panicked", "dropped"}

C2_NoPlaceholderObserved ==
    \A i \in Invocations : observed[i] # "None"

\* the routes of the client as decided from one request
RoutesDecidedFrom(r) ==
    LET base == base_path(r)
    IN IF config.base_path_behaviour = "RemountAndInclude" /\ ~base.panic /\ base.v # <<>>
       THEN {PATH_ROUTE, base.v \o PATH_ROUTE}
       ELSE {PATH_ROUTE}

\* C3: once the cell is Ready no step changes it or the request it was built
\* from, and the handle every invocation holds has the routes decided from
\* that first request.
C3_ReadyIsStable ==
    [][lazy_client.tag = "Ready" =>
          /\ lazy_client' = lazy_client
          /\ built_from' = built_from
          /\ \A i \in Invocations :
                client'[i] # NoClient =>
                    /\ client'[i] = lazy_client.c
                    /\ client'[i].routes = RoutesDecidedFrom(built_from)]_vars

\* C3 witness: an invocation with another request than the first one's was
\* served from the Ready cell
C3_Witness ==
    \E i \in Invocations :
        /\ observed[i] = "Ready"
        /\ pc[i] = "done"
        /\ res[i].kind = "Ok"
        /\ req[i] # built_from
        /\ base_path(req[i]) # base_path(built_from)
        /\ lazy_client.tag = "Ready"

\* the reconstructed resource segment of a custom-domain request
Reconstructed(r) == populate_resource_path(r, unwrap_or_empty(context_path(r)))

\* basePath as the specification defines it per topology
SpecBasePath(r) ==
    IF r.ctx = "Alb" THEN <<>>
    ELSE IF is_default_api_gateway_url(r) THEN <<"/">> \o unwrap_or_empty(r.stage)
    ELSE SubSeq(r.path, 1, SetMin(Occurrences(r.path, Reconstructed(r).v)))

\* C4: the client's routes are remounted iff the mode is RemountAndInclude
\* and the basePath of the triggering request, as the specification defines
\* it, is not empty.
C4_RemountIffBasePath ==
    lazy_client.tag = "Ready" =>
        ((lazy_client.c.routes # make_rocket.routes)
            <=> (config.base_path_behaviour = "RemountAndInclude"
                    /\ SpecBasePath(built_from) # <<>>))

\* the requests of C5: the application-relative path is /path/
C5_Requests == {ReqApiGateway, ReqCustomDomain, ReqCustomDomainWithBase, ReqAlb}

\* the base path each of them carries
C5_BasePath(r) ==
    IF r = ReqApiGateway THEN <<"/">> \o r.stage.v
    ELSE IF r = ReqCustomDomainWithBase THEN BASE_PATH
    ELSE <<>>

C5_FullPath(r) == IF r = ReqApiGateway THEN <<"/">> \o r.stage.v \o r.path ELSE r.path

C5_ApiPath(r) ==
    IF r = ReqCustomDomainWithBase THEN SubSeq(r.path, Len(BASE_PATH) + 1, Len(r.path))
    ELSE r.path

C5_Dispatched(r) ==
    IF config.base_path_behaviour = "Exclude" THEN C5_ApiPath(r) ELSE C5_FullPath(r)

C5_Status(r) ==
    IF config.base_path_behaviour = "Include" /\ C5_BasePath(r) # <<>> THEN 404 ELSE 200

\* C5: the first invocation, with an application-relative path /path/, is
\* dispatched on fullPath under Include and RemountAndInclude and on apiPath
\* under Exclude; it is answered 200 under Exclude and RemountAndInclude in
\* every topology, and under Include 200 iff it carries no base path, else
\* 404, the body reporting the dispatched path.
C5_FirstInvocationDispatch ==
    \A i \in Invocations :
        (observed[i] = "Some" /\ req[i] \in C5_Requests) =>
            /\ pc[i] \in {"dispatching", "done"} => local_uri[i] = C5_Dispatched(req[i])
            /\ pc[i] = "done" =>
                  /\ res[i].kind = "Ok"
                  /\ res[i].status = C5_Status(req[i])
                  /\ res[i].body = BodyText(as_bytes(C5_Dispatched(req[i])))

\* C5 witness: the default-domain request answered 404 with its fullPath
C5_Witness ==
    \E i \in Invocations :
        /\ observed[i] = "Some"
        /\ req[i] = ReqApiGateway
        /\ pc[i] = "done"
        /\ res[i].status = 404
        /\ res[i].body = BodyText(as_bytes(<<"/">> \o PROD \o PATH_SLASH))

\* the offsets at which seg occurs in path
OccursAt(path, seg, k) ==
    /\ k >= 0
    /\ k + Len(seg) <= Len(path)
    /\ \A n \in 1..Len(seg) : path[k + n] = seg[n]

IsCustomDomain(r) == r.ctx # "Alb" /\ ~is_default_api_gateway_url(r)

\* the reconstructed segment exists and occurs in the raw path
Locatable(r) ==
    /\ ~Reconstructed(r).panic
    /\ \E k \in 0..Len(r.path) : OccursAt(r.path, Reconstructed(r).v, k)

\* C6 as stated: basePath is the prefix before the FIRST occurrence of the
\* reconstructed segment and apiPath the raw path without that prefix.
C6_PrefixBeforeFirstOccurrence ==
    (IsCustomDomain(path_req) /\ Locatable(path_req)) =>
        LET seg == Reconstructed(path_req).v
            first == SetMin({k \in 0..Len(path_req.path) : OccursAt(path_req.path, seg, k)})
        IN /\ path_view.base.done =>
                 path_view.base = Done(Ok(SubSeq(path_req.path, 1, first)))
           /\ path_view.api.done =>
                 path_view.api = Done(Ok(SubSeq(path_req.path, first + 1, Len(path_req.path))))

\* C6 amended: basePath is the prefix before the LAST occurrence of the
\* reconstructed segment (for an empty template, the whole raw path) and
\* apiPath the raw path without that prefix.
C6_PrefixBeforeLastOccurrence ==
    (IsCustomDomain(path_req) /\ Locatable(path_req)) =>
        LET seg == Reconstructed(path_req).v
            last == SetMax({k \in 0..Len(path_req.path) : OccursAt(path_req.path, seg, k)})
        IN /\ path_view.base.done =>
                 path_view.base = Done(Ok(SubSeq(path_req.path, 1, last)))
           /\ path_view.api.done =>
                 path_view.api = Done(Ok(SubSeq(path_req.path, last + 1, Len(path_req.path))))

\* C6 witness: a custom-domain request in whose raw path the segment built
\* from a parameter occurs twice, both views computed
C6_Witness ==
    /\ IsCustomDomain(path_req)
    /\ Locatable(path_req)
    /\ path_req.resource_path = Some(<<"/", "{", "p", "}">>)
    /\ Cardinality({k \in 0..Len(path_req.path) :
                        OccursAt(path_req.path, Reconstructed(path_req).v, k)}) >= 2
    /\ path_view.base.done
    /\ path_view.api.done
    /\ ~path_view.base.panic

\* C7: for a load-balancer request, whatever its host and raw path,
\* base_path() is empty and does not treat the request as default-domain,
\* and full_path() and api_path() are the raw path.
C7_LoadBalancerViews ==
    path_req.ctx = "Alb" =>
        /\ path_view.base.done =>
              /\ path_view.base = Done(Ok(<<>>))
              /\ ~is_default_api_gateway_url(path_req)
        /\ path_view.full.done => path_view.full = Done(Ok(path_req.path))
        /\ path_view.api.done => path_view.api = Done(Ok(path_req.path))

\* C8: an invocation with a custom-domain request whose base path cannot be
\* computed is never dispatched and never produces a response.
C8_MismatchAborts ==
    \A i \in Invocations :
        (pc[i] # "idle" /\ IsCustomDomain(req[i]) /\ ~Locatable(req[i])) =>
            /\ pc[i] \notin {"dispatching", "done"}
            /\ res[i] = NoResult

\* C10: once the cell is Ready no invocation holds the lifecycle lock.
C10_NoLockOnceReady ==
    lazy_client.tag = "Ready" => lock = 0

\* the UTF-8 bytes of a string of code points below U+0800
Utf8EncodeChar(c) == IF c < 128 THEN <<c>> ELSE <<192 + (c \div 64), 128 + (c % 64)>>

RECURSIVE Utf8Encode(_)
Utf8Encode(str) ==
    IF Len(str) = 0 THEN <<>> ELSE Utf8EncodeChar(str[1]) \o Utf8Encode(Tail(str))

\* the texts whose UTF-8 bytes are byte strings of BodyBytes: 'A' and U+00E9
C9_Texts == UNION {[1..n -> {65, 233}] : n \in 0..MaxBodyLen}
C9_ValidUtf8(b) == \E str \in C9_Texts : Utf8Encode(str) = b

C9_BeforeSemicolon(str) ==
    LET stops == {k \in 1..Len(str) : str[k] = ";"}
    IN IF stops = {} THEN str ELSE SubSeq(str, 1, SetMin(stops) - 1)

C9_ContentType(headers) ==
    LET at == {k \in 1..Len(headers) : headers[k][1] = CONTENT_TYPE}
    IN IF at = {} THEN <<>> ELSE headers[SetMin(at)][2]

\* the declared encoding of the claim
C9_Declared ==
    LET key == to_lowercase(C9_BeforeSemicolon(C9_ContentType(local_res.headers)))
        hits == {e \in config.response_types : e[1] = key}
    IN IF hits = {} THEN config.default_response_type ELSE (CHOOSE e \in hits : TRUE)[2]

C9_IsOk(body) ==
    /\ lambda_res.kind = "Ok"
    /\ lambda_res.status = local_res.status
    /\ lambda_res.headers = local_res.headers
    /\ lambda_res.body.variant = body

C9_IsText(b) == C9_IsOk("Text") /\ Utf8Encode(lambda_res.body.data) = b
C9_IsBinary(b) == C9_IsOk("Binary") /\ lambda_res.body.data = b

\* the body decision of the claim
C9_BodyDecision ==
    IF ~local_res.body.some THEN C9_IsOk("Empty")
    ELSE LET b == local_res.body.v
         IN CASE C9_Declared = "Auto" ->
                    IF C9_ValidUtf8(b) THEN C9_IsText(b) ELSE C9_IsBinary(b)
              [] C9_Declared = "Text" ->
                    IF C9_ValidUtf8(b) THEN C9_IsText(b)
                    ELSE lambda_res.kind = "InvalidResponse"
              [] C9_Declared = "Binary" -> C9_IsBinary(b)

\* C9 as stated: for every framework response the result is the body
\* decision of the declared encoding, status and headers copied in order.
C9_BodyDecisionAlways ==
    lambda_res # NoResult => C9_BodyDecision

\* the response builder rejects the status or one of the headers
C9_AssemblyFails ==
    \/ local_res.status < 100
    \/ local_res.status > 999
    \/ \E k \in 1..Len(local_res.headers) :
          local_res.headers[k][1] = <<>> \/ \E n \in 1..Len(local_res.headers[k][1]) :
                                               local_res.headers[k][1][n] = " "

\* C9 amended: the same, except that a response whose status or header the
\* response builder does not accept fails with InvalidResponse whatever its
\* body.
C9_BodyDecisionUnlessAssemblyFails ==
    lambda_res # NoResult =>
        IF C9_AssemblyFails THEN lambda_res.kind = "InvalidResponse" ELSE C9_BodyDecision

\* C9 witness: a content type in mixed case with a parameter, declared Text
\* by the map, whose body is not UTF-8: the call failed
C9_Witness ==
    /\ C9_ContentType(local_res.headers) = TEXT_PLAIN_MIXED_CASE
    /\ C9_Declared = "Text"
    /\ config.default_response_type = "Binary"
    /\ local_res.body = Some(<<65, 255>>)
    /\ ~C9_AssemblyFails
    /\ lambda_res.kind = "InvalidResponse"

====
